---- MODULE Spec2Model ----
(***************************************************************************)
(* Key binding manager of grv (cmd/grv/key_bindings.go).                   *)
(*                                                                         *)
(* A KeyBindingManager owns one prefix tree of bindings per view           *)
(* (bindings), a help table helpFormat[action][view] listing the key       *)
(* strings bound to an action, and the userDefinedBinding switch.          *)
(* Key strings are modelled as sequences of one-character strings, so      *)
(* that prefix tests are the byte-wise tests the code performs.            *)
(***************************************************************************)
EXTENDS Naturals, Sequences, FiniteSets, TLC

VARIABLES
    bindings,            \* map[ViewID]*pt.Trie
    helpFormat,          \* map[ActionType]map[ViewID][]BoundKeyString
    userDefinedBinding,  \* bool
    last,                \* the last call made on the manager, with its result
    written,             \* history: per (view, key) the binding last installed
    everBound,           \* history: every key string ever bound in any view
    nOps                 \* number of calls made since construction

vars == <<bindings, helpFormat, userDefinedBinding, last, written, everBound, nOps>>

\* Number of mutating calls explored after construction.
MaxOps == 3

----------------------------------------------------------------------------
\* Key strings

K_g == <<"g">>
K_gg == <<"g", "g">>
K_G == <<"G">>
K_CtrlQ == <<"<", "C", "-", "q", ">">>
K_CtrlW_w == <<"<", "C", "-", "w", ">", "w">>
K_CtrlW_CtrlW == <<"<", "C", "-", "w", ">", "<", "C", "-", "w", ">">>
K_Tab == <<"<", "T", "a", "b", ">">>
K_CtrlW == <<"<", "C", "-", "w", ">">>
K_LtC == <<"<", "C">>
K_grvFirstLine == <<"<", "g", "r", "v", "-", "f", "i", "r", "s", "t", "-", "l", "i", "n", "e", ">">>
K_grvFilterPrompt == <<"<", "g", "r", "v", "-", "f", "i", "l", "t", "e", "r", "-", "p", "r", "o", "m", "p", "t", ">">>
K_grvNextView == <<"<", "g", "r", "v", "-", "n", "e", "x", "t", "-", "v", "i", "e", "w", ">">>
GrvPrefix == <<"<", "g", "r", "v", "-">>
EmptyString == << >>

\* strings.HasPrefix
HasPrefix(s, prefix) ==
    /\ Len(prefix) <= Len(s)
    /\ SubSeq(s, 1, Len(prefix)) = prefix

----------------------------------------------------------------------------
\* Views, actions and the action catalog (a slice of the real table)

ViewAll == "ViewAll"
ViewIDs == {"ViewAll", "ViewRef", "ViewCommit"}

ActionNone == "ActionNone"
ActionTypes == {"ActionNone", "ActionFilterPrompt", "ActionQuestionPrompt",
                "ActionFirstLine", "ActionNextView"}

EmptyMap == [x \in {} |-> x]

MapPut(f, k, v) == [x \in (DOMAIN f) \cup {k} |-> IF x = k THEN v ELSE f[x]]

actionDescriptors ==
    [a \in ActionTypes |->
        CASE a = "ActionNone" ->
                [actionKey |-> EmptyString, keyBindings |-> EmptyMap]
          [] a = "ActionFilterPrompt" ->
                [actionKey |-> K_grvFilterPrompt,
                 keyBindings |-> [v \in {"ViewCommit", "ViewRef"} |-> <<K_CtrlQ>>]]
          [] a = "ActionQuestionPrompt" ->
                [actionKey |-> EmptyString, keyBindings |-> EmptyMap]
          [] a = "ActionFirstLine" ->
                [actionKey |-> K_grvFirstLine,
                 keyBindings |-> [v \in {"ViewAll"} |-> <<K_gg>>]]
          [] a = "ActionNextView" ->
                [actionKey |-> K_grvNextView,
                 keyBindings |-> [v \in {"ViewAll"} |->
                                    <<K_CtrlW_w, K_CtrlW_CtrlW, K_Tab>>]]]

\* var actionKeys, filled by init()
actionKeys ==
    LET keyed == {a \in ActionTypes : actionDescriptors[a].actionKey # EmptyString}
    IN [k \in {actionDescriptors[a].actionKey : a \in keyed} |->
            CHOOSE a \in keyed : actionDescriptors[a].actionKey = k]

----------------------------------------------------------------------------
\* Binding values

\* Faulty variant: the action type is not stored.
newActionBinding_ZeroAction(actionType) ==
    [bindingType |-> "BtAction", actionType |-> ActionNone, keystring |-> EmptyString]

newActionBinding(actionType) ==
    [bindingType |-> "BtAction", actionType |-> actionType, keystring |-> EmptyString]

\* Faulty variant: a target that is an action key is stored as that action.
newKeystringBinding_AsAction(keystring) ==
    IF keystring \in DOMAIN actionKeys
    THEN [bindingType |-> "BtAction", actionType |-> actionKeys[keystring],
          keystring |-> EmptyString]
    ELSE [bindingType |-> "BtKeystring", keystring |-> keystring, actionType |-> ActionNone]

newKeystringBinding(keystring) ==
    [bindingType |-> "BtKeystring", keystring |-> keystring, actionType |-> ActionNone]

\* The nil item a trie lookup returns when the key has no entry.
NoItem == [bindingType |-> "nil", actionType |-> ActionNone, keystring |-> EmptyString]

----------------------------------------------------------------------------
\* The prefix tree (package patricia), by the contract the manager relies on:
\* a trie is a map from key strings to items; Get and Delete match the
\* whole key, MatchSubtree tests whether a stored key starts with the key.

TrieGet(trie, key) == IF key \in DOMAIN trie THEN trie[key] ELSE NoItem

TrieSet(trie, key, item) == MapPut(trie, key, item)

TrieMatchSubtree(trie, key) == \E k \in DOMAIN trie : HasPrefix(k, key)

TrieDeleted(trie, key) == key \in DOMAIN trie

TrieDelete(trie, key) == [k \in (DOMAIN trie) \ {key} |-> trie[k]]

----------------------------------------------------------------------------
\* KeyBindingManager methods, as functions of the manager
\*   m = [bindings, helpFormat, userDefinedBinding]

\* Faulty variant: the scan returns at the first scope that reports a prefix.
RECURSIVE BindingScan_StopAtPrefix(_, _, _, _, _)
BindingScan_StopAtPrefix(viewTries, viewHierarchy, i, keystring, isPrefix) ==
    IF i > Len(viewHierarchy)
    THEN [binding |-> [bindingType |-> "BtAction", actionType |-> ActionNone,
                       keystring |-> EmptyString],
          isPrefix |-> isPrefix]
    ELSE LET viewID == viewHierarchy[i] IN
         IF viewID \in DOMAIN viewTries
         THEN LET viewBindings == viewTries[viewID]
                  binding == TrieGet(viewBindings, keystring)
              IN IF binding # NoItem
                 THEN [binding |-> binding, isPrefix |-> FALSE]
                 ELSE IF TrieMatchSubtree(viewBindings, keystring)
                      THEN [binding |-> [bindingType |-> "BtAction",
                                         actionType |-> ActionNone,
                                         keystring |-> EmptyString],
                            isPrefix |-> TRUE]
                      ELSE BindingScan_StopAtPrefix(viewTries, viewHierarchy, i + 1,
                                                    keystring, isPrefix)
         ELSE BindingScan_StopAtPrefix(viewTries, viewHierarchy, i + 1, keystring, isPrefix)

\* Faulty variant: the prefix test of a scope without an exact entry is lost.
RECURSIVE BindingScan_IgnorePrefix(_, _, _, _, _)
BindingScan_IgnorePrefix(viewTries, viewHierarchy, i, keystring, isPrefix) ==
    IF i > Len(viewHierarchy)
    THEN [binding |-> [bindingType |-> "BtAction", actionType |-> ActionNone,
                       keystring |-> EmptyString],
          isPrefix |-> isPrefix]
    ELSE LET viewID == viewHierarchy[i] IN
         IF viewID \in DOMAIN viewTries
         THEN LET viewBindings == viewTries[viewID]
                  binding == TrieGet(viewBindings, keystring)
              IN IF binding # NoItem
                 THEN [binding |-> binding, isPrefix |-> FALSE]
                 ELSE BindingScan_IgnorePrefix(viewTries, viewHierarchy, i + 1,
                                               keystring, isPrefix)
         ELSE BindingScan_IgnorePrefix(viewTries, viewHierarchy, i + 1, keystring, isPrefix)

\* Faulty variant: each scope overwrites the prefix flag instead of raising it.
RECURSIVE BindingScan_LastScopeDecides(_, _, _, _, _)
BindingScan_LastScopeDecides(viewTries, viewHierarchy, i, keystring, isPrefix) ==
    IF i > Len(viewHierarchy)
    THEN [binding |-> [bindingType |-> "BtAction", actionType |-> ActionNone,
                       keystring |-> EmptyString],
          isPrefix |-> isPrefix]
    ELSE LET viewID == viewHierarchy[i] IN
         IF viewID \in DOMAIN viewTries
         THEN LET viewBindings == viewTries[viewID]
                  binding == TrieGet(viewBindings, keystring)
              IN IF binding # NoItem
                 THEN [binding |-> binding, isPrefix |-> FALSE]
                 ELSE BindingScan_LastScopeDecides(viewTries, viewHierarchy, i + 1,
                            keystring, TrieMatchSubtree(viewBindings, keystring))
         ELSE BindingScan_LastScopeDecides(viewTries, viewHierarchy, i + 1,
                                           keystring, isPrefix)

RECURSIVE BindingScan(_, _, _, _, _)
BindingScan(viewTries, viewHierarchy, i, keystring, isPrefix) ==
    IF i > Len(viewHierarchy)
    THEN [binding |-> newActionBinding(ActionNone), isPrefix |-> isPrefix]
    ELSE LET viewID == viewHierarchy[i] IN
         IF viewID \in DOMAIN viewTries
         THEN LET viewBindings == viewTries[viewID]
                  binding == TrieGet(viewBindings, keystring)
              IN IF binding # NoItem
                 THEN [binding |-> binding, isPrefix |-> FALSE]
                 ELSE IF TrieMatchSubtree(viewBindings, keystring)
                      THEN BindingScan(viewTries, viewHierarchy, i + 1, keystring, TRUE)
                      ELSE BindingScan(viewTries, viewHierarchy, i + 1, keystring, isPrefix)
         ELSE BindingScan(viewTries, viewHierarchy, i + 1, keystring, isPrefix)

\* The scopes the loop of Binding consults, in order, up to the one it
\* returns from.
RECURSIVE BindingConsulted(_, _, _, _)
BindingConsulted(viewTries, viewHierarchy, i, keystring) ==
    IF i > Len(viewHierarchy)
    THEN << >>
    ELSE LET viewID == viewHierarchy[i] IN
         IF viewID \in DOMAIN viewTries /\ TrieGet(viewTries[viewID], keystring) # NoItem
         THEN <<i>>
         ELSE <<i>> \o BindingConsulted(viewTries, viewHierarchy, i + 1, keystring)

\* Faulty variant: a remap found is followed once, through the same scopes.
Binding_FollowRemap(m, viewHierarchy, keystring) ==
    LET found == BindingScan(m.bindings, Append(viewHierarchy, ViewAll), 1, keystring, FALSE)
    IN IF found.binding.bindingType = "BtKeystring"
       THEN BindingScan(m.bindings, Append(viewHierarchy, ViewAll), 1,
                        found.binding.keystring, FALSE)
       ELSE found

\* Faulty variant: ViewAll is consulted first instead of last.
Binding_CatchAllFirst(m, viewHierarchy, keystring) ==
    BindingScan(m.bindings, <<ViewAll>> \o viewHierarchy, 1, keystring, FALSE)

Binding(m, viewHierarchy, keystring) ==
    BindingScan(m.bindings, Append(viewHierarchy, ViewAll), 1, keystring, FALSE)

getOrCreateViewBindings(viewTries, viewID) ==
    IF viewID \in DOMAIN viewTries
    THEN viewTries
    ELSE MapPut(viewTries, viewID, EmptyMap)

\* Faulty variant: the new entry is put in front of the bucket.
updateHelpFormat_Prepend(m, actionType, viewID, keystring) ==
    IF HasPrefix(keystring, GrvPrefix)
    THEN m
    ELSE LET hf == IF actionType \in DOMAIN m.helpFormat
                   THEN m.helpFormat
                   ELSE MapPut(m.helpFormat, actionType, EmptyMap)
             viewBindings == hf[actionType]
             keystrings == IF viewID \in DOMAIN viewBindings
                           THEN viewBindings[viewID]
                           ELSE << >>
             prepended == <<[keystring |-> keystring,
                             userDefinedBinding |-> m.userDefinedBinding]>> \o keystrings
         IN [m EXCEPT !.helpFormat =
                MapPut(hf, actionType, MapPut(viewBindings, viewID, prepended))]

\* Faulty variant: the "<grv-" check of lines 716-718 is missing.
updateHelpFormat_NoReservedCheck(m, actionType, viewID, keystring) ==
    LET hf == IF actionType \in DOMAIN m.helpFormat
              THEN m.helpFormat
              ELSE MapPut(m.helpFormat, actionType, EmptyMap)
        viewBindings == hf[actionType]
        keystrings == IF viewID \in DOMAIN viewBindings
                      THEN viewBindings[viewID]
                      ELSE << >>
        appended == Append(keystrings,
                           [keystring |-> keystring,
                            userDefinedBinding |-> m.userDefinedBinding])
    IN [m EXCEPT !.helpFormat =
            MapPut(hf, actionType, MapPut(viewBindings, viewID, appended))]

updateHelpFormat(m, actionType, viewID, keystring) ==
    IF HasPrefix(keystring, GrvPrefix)
    THEN m
    ELSE LET hf == IF actionType \in DOMAIN m.helpFormat
                   THEN m.helpFormat
                   ELSE MapPut(m.helpFormat, actionType, EmptyMap)
             viewBindings == hf[actionType]
             keystrings == IF viewID \in DOMAIN viewBindings
                           THEN viewBindings[viewID]
                           ELSE << >>
             appended == Append(keystrings,
                                [keystring |-> keystring,
                                 userDefinedBinding |-> m.userDefinedBinding])
         IN [m EXCEPT !.helpFormat =
                MapPut(hf, actionType, MapPut(viewBindings, viewID, appended))]

\* Faulty variant: an existing entry is kept instead of overwritten.
SetActionBinding_KeepExisting(m, viewID, keystring, actionType) ==
    LET created == getOrCreateViewBindings(m.bindings, viewID)
        stored == IF keystring \in DOMAIN created[viewID]
                  THEN created
                  ELSE MapPut(created, viewID,
                              TrieSet(created[viewID], keystring,
                                      newActionBinding(actionType)))
    IN updateHelpFormat([m EXCEPT !.bindings = stored], actionType, viewID, keystring)

SetActionBinding(m, viewID, keystring, actionType) ==
    LET created == getOrCreateViewBindings(m.bindings, viewID)
        stored == MapPut(created, viewID,
                         TrieSet(created[viewID], keystring, newActionBinding(actionType)))
    IN updateHelpFormat([m EXCEPT !.bindings = stored], actionType, viewID, keystring)

\* Faulty variant: the key string is pruned from the action's bucket of every
\* view, not only of viewID.
removeHelpFormatEntry_AllViews(m, binding, viewID, keystring) ==
    LET actionType ==
            IF binding.bindingType = "BtAction"
            THEN binding.actionType
            ELSE IF binding.bindingType = "BtKeystring"
                    /\ binding.keystring \in DOMAIN actionKeys
                 THEN actionKeys[binding.keystring]
                 ELSE ActionNone
    IN IF actionType \notin DOMAIN m.helpFormat
       THEN m
       ELSE LET viewBindings == m.helpFormat[actionType] IN
            [m EXCEPT !.helpFormat =
                MapPut(m.helpFormat, actionType,
                       [v \in DOMAIN viewBindings |->
                            SelectSeq(viewBindings[v],
                                      LAMBDA key : key.keystring # keystring)])]

removeHelpFormatEntry(m, binding, viewID, keystring) ==
    LET actionType ==
            IF binding.bindingType = "BtAction"
            THEN binding.actionType
            ELSE IF binding.bindingType = "BtKeystring"
                    /\ binding.keystring \in DOMAIN actionKeys
                 THEN actionKeys[binding.keystring]
                 ELSE ActionNone
    IN IF actionType \notin DOMAIN m.helpFormat
       THEN m
       ELSE LET viewBindings == m.helpFormat[actionType] IN
            IF viewID \notin DOMAIN viewBindings
            THEN m
            ELSE LET updatedKeystrings ==
                        SelectSeq(viewBindings[viewID],
                                  LAMBDA key : key.keystring # keystring)
                 IN [m EXCEPT !.helpFormat =
                        MapPut(m.helpFormat, actionType,
                               MapPut(viewBindings, viewID, updatedKeystrings))]

\* Faulty variant: the entry is deleted from the scope that resolved it, so
\* ViewAll loses its entry when the view has none.
RemoveBinding_DeleteResolved(m, viewID, keystring) ==
    LET binding == Binding(m, <<viewID>>, keystring).binding
        target == IF viewID \in DOMAIN m.bindings /\ keystring \in DOMAIN m.bindings[viewID]
                  THEN viewID
                  ELSE ViewAll
        hasTrie == target \in DOMAIN m.bindings
        removed == hasTrie /\ TrieDeleted(m.bindings[target], keystring)
        deleted == IF hasTrie
                   THEN [m EXCEPT !.bindings =
                            MapPut(m.bindings, target,
                                   TrieDelete(m.bindings[target], keystring))]
                   ELSE m
    IN [m |-> IF binding.actionType # ActionNone \/ binding.keystring # EmptyString
              THEN removeHelpFormatEntry(deleted, binding, viewID, keystring)
              ELSE deleted,
        removed |-> removed]

\* Faulty variant: the result reports whether the lookup through the
\* hierarchy found a binding, not whether the view's own entry was deleted.
RemoveBinding_ReportResolved(m, viewID, keystring) ==
    LET binding == Binding(m, <<viewID>>, keystring).binding
        hasTrie == viewID \in DOMAIN m.bindings
        deleted == IF hasTrie
                   THEN [m EXCEPT !.bindings =
                            MapPut(m.bindings, viewID,
                                   TrieDelete(m.bindings[viewID], keystring))]
                   ELSE m
        found == binding.actionType # ActionNone \/ binding.keystring # EmptyString
    IN [m |-> IF found
              THEN removeHelpFormatEntry(deleted, binding, viewID, keystring)
              ELSE deleted,
        removed |-> found]

\* Returns the manager after the call and the call's result.
RemoveBinding(m, viewID, keystring) ==
    LET binding == Binding(m, <<viewID>>, keystring).binding
        hasTrie == viewID \in DOMAIN m.bindings
        removed == hasTrie /\ TrieDeleted(m.bindings[viewID], keystring)
        deleted == IF hasTrie
                   THEN [m EXCEPT !.bindings =
                            MapPut(m.bindings, viewID,
                                   TrieDelete(m.bindings[viewID], keystring))]
                   ELSE m
    IN [m |-> IF binding.actionType # ActionNone \/ binding.keystring # EmptyString
              THEN removeHelpFormatEntry(deleted, binding, viewID, keystring)
              ELSE deleted,
        removed |-> removed]

\* Faulty variant: the result of the actionKeys lookup is used without its
\* ok flag, so a target that is no action key is credited to ActionNone.
SetKeystringBinding_CreditAlways(m, viewID, keystring, mappedKeystring) ==
    LET purged == RemoveBinding(m, viewID, keystring).m
        created == getOrCreateViewBindings(purged.bindings, viewID)
        stored == MapPut(created, viewID,
                         TrieSet(created[viewID], keystring,
                                 newKeystringBinding(mappedKeystring)))
        set == [purged EXCEPT !.bindings = stored]
    IN updateHelpFormat(set,
                        IF mappedKeystring \in DOMAIN actionKeys
                        THEN actionKeys[mappedKeystring]
                        ELSE ActionNone,
                        viewID, keystring)

\* Faulty variant: the help entry is recorded before the purge of line 694
\* instead of after the trie write.
SetKeystringBinding_CreditBeforePurge(m, viewID, keystring, mappedKeystring) ==
    LET credited == IF mappedKeystring \in DOMAIN actionKeys
                    THEN updateHelpFormat(m, actionKeys[mappedKeystring], viewID, keystring)
                    ELSE m
        purged == RemoveBinding(credited, viewID, keystring).m
        created == getOrCreateViewBindings(purged.bindings, viewID)
    IN [purged EXCEPT !.bindings =
            MapPut(created, viewID,
                   TrieSet(created[viewID], keystring,
                           newKeystringBinding(mappedKeystring)))]

SetKeystringBinding(m, viewID, keystring, mappedKeystring) ==
    LET purged == RemoveBinding(m, viewID, keystring).m
        created == getOrCreateViewBindings(purged.bindings, viewID)
        stored == MapPut(created, viewID,
                         TrieSet(created[viewID], keystring,
                                 newKeystringBinding(mappedKeystring)))
        set == [purged EXCEPT !.bindings = stored]
    IN IF mappedKeystring \in DOMAIN actionKeys
       THEN updateHelpFormat(set, actionKeys[mappedKeystring], viewID, keystring)
       ELSE set

KeyStrings(m, actionType, viewID) ==
    IF actionType \notin DOMAIN m.helpFormat
    THEN << >>
    ELSE IF viewID \in DOMAIN m.helpFormat[actionType]
         THEN m.helpFormat[actionType][viewID]
         ELSE << >>

----------------------------------------------------------------------------
\* Construction.  The code ranges over Go maps, whose iteration order is
\* not fixed: the orders are parameters, chosen freely in Init.

Perms(S) ==
    {f \in [1..Cardinality(S) -> S] : \A x \in S : \E i \in DOMAIN f : f[i] = x}

RECURSIVE BindKeys(_, _, _, _, _)
BindKeys(m, viewID, keys, i, actionType) ==
    IF i > Len(keys)
    THEN m
    ELSE BindKeys(SetActionBinding(m, viewID, keys[i], actionType),
                  viewID, keys, i + 1, actionType)

RECURSIVE BindViews(_, _, _, _)
BindViews(m, viewOrder, i, actionType) ==
    IF i > Len(viewOrder)
    THEN m
    ELSE LET viewID == viewOrder[i]
             keyBindings == actionDescriptors[actionType].keyBindings
         IN BindViews(IF viewID \in DOMAIN keyBindings
                      THEN BindKeys(m, viewID, keyBindings[viewID], 1, actionType)
                      ELSE m,
                      viewOrder, i + 1, actionType)

RECURSIVE BindDescriptors(_, _, _, _)
BindDescriptors(m, descOrder, viewOrder, i) ==
    IF i > Len(descOrder)
    THEN m
    ELSE BindDescriptors(BindViews(m, viewOrder, 1, descOrder[i]),
                         descOrder, viewOrder, i + 1)

RECURSIVE BindActionKeys(_, _, _)
BindActionKeys(m, keyOrder, i) ==
    IF i > Len(keyOrder)
    THEN m
    ELSE BindActionKeys(SetActionBinding(m, ViewAll, keyOrder[i], actionKeys[keyOrder[i]]),
                        keyOrder, i + 1)

\* Faulty variant: the loop over actionKeys (lines 796-798) is missing.
setDefaultKeyBindings_DescriptorsOnly(m, keyOrder, descOrder, viewOrder) ==
    BindDescriptors(m, descOrder, viewOrder, 1)

setDefaultKeyBindings(m, keyOrder, descOrder, viewOrder) ==
    BindDescriptors(BindActionKeys(m, keyOrder, 1), descOrder, viewOrder, 1)

\* Faulty variant: the switch is set before the default load instead of after.
NewKeyBindingManager_FlagFirst(keyOrder, descOrder, viewOrder) ==
    LET fresh == [bindings |-> EmptyMap, helpFormat |-> EmptyMap,
                  userDefinedBinding |-> TRUE]
    IN setDefaultKeyBindings(fresh, keyOrder, descOrder, viewOrder)

NewKeyBindingManager(keyOrder, descOrder, viewOrder) ==
    LET fresh == [bindings |-> EmptyMap, helpFormat |-> EmptyMap,
                  userDefinedBinding |-> FALSE]
        loaded == setDefaultKeyBindings(fresh, keyOrder, descOrder, viewOrder)
    IN [loaded EXCEPT !.userDefinedBinding = TRUE]

\* Every key string the default load binds in some view.
DefaultKeys ==
    (DOMAIN actionKeys) \cup
    UNION {UNION {{actionDescriptors[a].keyBindings[v][i] :
                        i \in DOMAIN actionDescriptors[a].keyBindings[v]} :
                    v \in DOMAIN actionDescriptors[a].keyBindings} :
            a \in ActionTypes}

----------------------------------------------------------------------------
\* The state machine: the manager after construction, then calls made by
\* the configuration loader.

\* Arguments of the calls explored.  ViewCommit keeps its default bindings.
CallViews == {"ViewAll", "ViewRef"}
CallKeys == {K_g, K_gg}
CallActions == {"ActionNone", "ActionFirstLine", "ActionFilterPrompt"}
CallTargets == {K_grvFirstLine, K_gg}

\* Key string arguments of the calls that reach into the "<grv-" namespace.
ReservedCallKeys == {K_gg, K_grvFirstLine}

\* Key strings that are remapped to one another.
CycleKeys == {K_g, K_G}

Mgr == [bindings |-> bindings, helpFormat |-> helpFormat,
        userDefinedBinding |-> userDefinedBinding]

\* The exact entry of (viewID, keystring), NoItem when there is none.
Entry(viewTries, viewID, keystring) ==
    IF viewID \in DOMAIN viewTries
    THEN TrieGet(viewTries[viewID], keystring)
    ELSE NoItem

Call(op, viewID, keystring, actionType, mappedKeystring, removed) ==
    [op |-> op, viewID |-> viewID, keystring |-> keystring,
     actionType |-> actionType, mappedKeystring |-> mappedKeystring,
     removed |-> removed, prior |-> Entry(bindings, viewID, keystring)]

Init ==
    \E keyOrder \in Perms(DOMAIN actionKeys), descOrder \in Perms(ActionTypes),
       viewOrder \in Perms(ViewIDs) :
        LET m == NewKeyBindingManager(keyOrder, descOrder, viewOrder) IN
        /\ bindings = m.bindings
        /\ helpFormat = m.helpFormat
        /\ userDefinedBinding = m.userDefinedBinding
        /\ last = [op |-> "NewKeyBindingManager", viewID |-> ViewAll,
                   keystring |-> EmptyString, actionType |-> ActionNone,
                   mappedKeystring |-> EmptyString, removed |-> FALSE,
                   prior |-> NoItem]
        /\ written = [p \in CallViews \X (CallKeys \cup ReservedCallKeys \cup CycleKeys) |-> NoItem]
        /\ everBound = DefaultKeys
        /\ nOps = 0

Becomes(m) ==
    /\ bindings' = m.bindings
    /\ helpFormat' = m.helpFormat
    /\ userDefinedBinding' = m.userDefinedBinding
    /\ nOps' = nOps + 1

CallSetActionBinding(viewID, keystring, actionType) ==
    /\ nOps < MaxOps
    /\ Becomes(SetActionBinding(Mgr, viewID, keystring, actionType))
    /\ last' = Call("SetActionBinding", viewID, keystring, actionType, EmptyString, FALSE)
    /\ written' = [written EXCEPT ![<<viewID, keystring>>] = newActionBinding(actionType)]
    /\ everBound' = everBound \cup {keystring}

CallSetKeystringBinding(viewID, keystring, mappedKeystring) ==
    /\ nOps < MaxOps
    /\ Becomes(SetKeystringBinding(Mgr, viewID, keystring, mappedKeystring))
    /\ last' = Call("SetKeystringBinding", viewID, keystring, ActionNone, mappedKeystring, FALSE)
    /\ written' = [written EXCEPT ![<<viewID, keystring>>] = newKeystringBinding(mappedKeystring)]
    /\ everBound' = everBound \cup {keystring}

CallRemoveBinding(viewID, keystring) ==
    /\ nOps < MaxOps
    /\ LET r == RemoveBinding(Mgr, viewID, keystring) IN
        /\ Becomes(r.m)
        /\ last' = Call("RemoveBinding", viewID, keystring, ActionNone, EmptyString, r.removed)
    /\ written' = [written EXCEPT ![<<viewID, keystring>>] = NoItem]
    /\ UNCHANGED everBound

Next ==
    \/ \E viewID \in CallViews, keystring \in CallKeys, actionType \in CallActions :
            CallSetActionBinding(viewID, keystring, actionType)
    \/ \E viewID \in CallViews, keystring \in CallKeys, mappedKeystring \in CallTargets :
            CallSetKeystringBinding(viewID, keystring, mappedKeystring)
    \/ \E viewID \in CallViews, keystring \in CallKeys :
            CallRemoveBinding(viewID, keystring)

Spec == Init /\ [][Next]_vars

\* The same calls, made with key strings of the "<grv-" namespace.
NextReserved ==
    \/ \E viewID \in CallViews, keystring \in ReservedCallKeys, actionType \in CallActions :
            CallSetActionBinding(viewID, keystring, actionType)
    \/ \E viewID \in CallViews, keystring \in ReservedCallKeys, mappedKeystring \in CallTargets :
            CallSetKeystringBinding(viewID, keystring, mappedKeystring)
    \/ \E viewID \in CallViews, keystring \in ReservedCallKeys :
            CallRemoveBinding(viewID, keystring)

SpecReserved == Init /\ [][NextReserved]_vars

\* The same calls, with remaps whose targets are key strings bound themselves.
NextCycle ==
    \/ \E viewID \in CallViews, keystring \in CycleKeys, actionType \in CallActions :
            CallSetActionBinding(viewID, keystring, actionType)
    \/ \E viewID \in CallViews, keystring \in CycleKeys, mappedKeystring \in CycleKeys :
            CallSetKeystringBinding(viewID, keystring, mappedKeystring)
    \/ \E viewID \in CallViews, keystring \in CycleKeys :
            CallRemoveBinding(viewID, keystring)

SpecCycle == Init /\ [][NextCycle]_vars

\* Longer call sequences on one key string of one view that ViewAll binds
\* too: rebinding it, removing it, and removing it once more.
MaxShadowOps == 4
ShadowViews == {"ViewRef"}
ShadowKeys == {K_gg}

ShadowSetActionBinding(viewID, keystring, actionType) ==
    /\ nOps < MaxShadowOps
    /\ Becomes(SetActionBinding(Mgr, viewID, keystring, actionType))
    /\ last' = Call("SetActionBinding", viewID, keystring, actionType, EmptyString, FALSE)
    /\ written' = [written EXCEPT ![<<viewID, keystring>>] = newActionBinding(actionType)]
    /\ everBound' = everBound \cup {keystring}

ShadowSetKeystringBinding(viewID, keystring, mappedKeystring) ==
    /\ nOps < MaxShadowOps
    /\ Becomes(SetKeystringBinding(Mgr, viewID, keystring, mappedKeystring))
    /\ last' = Call("SetKeystringBinding", viewID, keystring, ActionNone, mappedKeystring, FALSE)
    /\ written' = [written EXCEPT ![<<viewID, keystring>>] = newKeystringBinding(mappedKeystring)]
    /\ everBound' = everBound \cup {keystring}

ShadowRemoveBinding(viewID, keystring) ==
    /\ nOps < MaxShadowOps
    /\ LET r == RemoveBinding(Mgr, viewID, keystring) IN
        /\ Becomes(r.m)
        /\ last' = Call("RemoveBinding", viewID, keystring, ActionNone, EmptyString, r.removed)
    /\ written' = [written EXCEPT ![<<viewID, keystring>>] = NoItem]
    /\ UNCHANGED everBound

NextShadow ==
    \/ \E viewID \in ShadowViews, keystring \in ShadowKeys, actionType \in CallActions :
            ShadowSetActionBinding(viewID, keystring, actionType)
    \/ \E viewID \in ShadowViews, keystring \in ShadowKeys, mappedKeystring \in CallTargets :
            ShadowSetKeystringBinding(viewID, keystring, mappedKeystring)
    \/ \E viewID \in ShadowViews, keystring \in ShadowKeys :
            ShadowRemoveBinding(viewID, keystring)

SpecShadow == Init /\ [][NextShadow]_vars

----------------------------------------------------------------------------
\* Vocabulary of the properties

\* Hierarchies handed to Binding: up to two views, most specific first.
Hierarchies ==
    {<< >>} \cup {<<v>> : v \in ViewIDs} \cup {<<v, w>> : v, w \in ViewIDs}

\* Key strings handed to Binding.
Inputs ==
    CallKeys \cup {K_G, K_CtrlQ, K_CtrlW, K_LtC, K_CtrlW_w, K_grvFirstLine}

Sentinel == [bindingType |-> "BtAction", actionType |-> "ActionNone", keystring |-> << >>]

Resolve(viewHierarchy, keystring) == Binding(Mgr, viewHierarchy, keystring)

Result(binding, pending) == [binding |-> binding, isPrefix |-> pending]

HasExact(viewID, keystring) ==
    viewID \in DOMAIN bindings /\ keystring \in DOMAIN bindings[viewID]

\* Some key string stored for the view starts with keystring.
StoresExtension(viewID, keystring) ==
    /\ viewID \in DOMAIN bindings
    /\ \E k \in DOMAIN bindings[viewID] :
            /\ Len(keystring) <= Len(k)
            /\ \A i \in 1..Len(keystring) : k[i] = keystring[i]

\* The key strings listed in a help bucket.
HelpKeys(helpTable, actionType, viewID) ==
    IF actionType \in DOMAIN helpTable /\ viewID \in DOMAIN helpTable[actionType]
    THEN {helpTable[actionType][viewID][i].keystring :
            i \in DOMAIN helpTable[actionType][viewID]}
    ELSE {}

----------------------------------------------------------------------------
\* C1: an exact entry for the input in a later scope of hierarchy+[ViewAll]
\* beats the pending signal of an earlier scope: when some earlier scope only
\* stores longer key strings starting with the input and a later scope is the
\* first to hold an exact entry, Binding returns that entry with isPrefix
\* FALSE, never (ActionNone, TRUE).
PendingPrecedenceOverride ==
    \A h \in Hierarchies, K \in Inputs :
        LET scopes == Append(h, ViewAll) IN
        \A j \in 1..Len(scopes) :
            (/\ HasExact(scopes[j], K)
             /\ \A i \in 1..(j - 1) : ~HasExact(scopes[i], K)
             /\ \E i \in 1..(j - 1) : StoresExtension(scopes[i], K))
            => Resolve(h, K) = Result(bindings[scopes[j]][K], FALSE)

\* C1 witness: "gg" is stored for ViewRef, "g" was just bound for ViewAll to
\* a real action, and Binding([ViewRef], "g") gives that action.
PendingPrecedenceOverrideWitness ==
    /\ last.op = "SetActionBinding"
    /\ last.viewID = ViewAll
    /\ last.keystring = K_g
    /\ last.actionType # ActionNone
    /\ HasExact("ViewRef", K_gg)
    /\ ~HasExact("ViewRef", K_g)
    /\ Resolve(<<"ViewRef">>, K_g) = Result(newActionBinding(last.actionType), FALSE)

\* C2: when some scope of hierarchy+[ViewAll] holds an exact entry for the
\* input, Binding returns the entry of the first such scope with isPrefix
\* FALSE, whatever later scopes hold.
SpecificityPrecedence ==
    \A h \in Hierarchies, K \in Inputs :
        LET scopes == Append(h, ViewAll)
            exact == {i \in 1..Len(scopes) : HasExact(scopes[i], K)}
        IN exact # {} =>
            LET first == CHOOSE i \in exact : \A j \in exact : i <= j
            IN Resolve(h, K) = Result(bindings[scopes[first]][K], FALSE)

\* C2 witness: "gg" has just been bound for ViewRef, ViewAll holds "gg" too
\* with another binding, Binding([ViewRef], "gg") gives ViewRef's entry and
\* Binding([], "gg") gives ViewAll's.
SpecificityPrecedenceWitness ==
    /\ last.op \in {"SetActionBinding", "SetKeystringBinding"}
    /\ last.viewID = "ViewRef"
    /\ last.keystring = K_gg
    /\ HasExact(ViewAll, K_gg)
    /\ bindings[ViewAll][K_gg] # bindings["ViewRef"][K_gg]
    /\ Resolve(<<"ViewRef">>, K_gg) = Result(bindings["ViewRef"][K_gg], FALSE)
    /\ Resolve(<< >>, K_gg) = Result(bindings[ViewAll][K_gg], FALSE)

\* C3: right after SetActionBinding(S, K, A), Binding([S], K) is
\* (action binding A, FALSE).
AfterBindActionResolves ==
    last.op = "SetActionBinding" =>
        Resolve(<<last.viewID>>, last.keystring)
            = Result([bindingType |-> "BtAction", actionType |-> last.actionType,
                      keystring |-> << >>], FALSE)

\* C3 witness: SetActionBinding has just replaced a remap entry of a view
\* other than ViewAll by a real action, after two earlier calls.
AfterBindActionResolvesWitness ==
    /\ last.op = "SetActionBinding"
    /\ last.viewID # ViewAll
    /\ last.actionType # ActionNone
    /\ last.prior.bindingType = "BtKeystring"
    /\ nOps = 3
    /\ Resolve(<<last.viewID>>, last.keystring).binding.actionType = last.actionType

\* C4 as stated: for a key string never bound in any view, Binding([S], K) is
\* (ActionNone, FALSE).
NeverBoundNotPending ==
    \A S \in ViewIDs, K \in Inputs \ everBound :
        Resolve(<<S>>, K) = Result(Sentinel, FALSE)

\* C4 amended: for a key string never bound in any view, Binding([S], K)
\* returns the ActionNone binding, and isPrefix is TRUE exactly when S or
\* ViewAll stores a key string that starts with K.
NeverBoundResolvesToSentinel ==
    \A S \in ViewIDs, K \in Inputs \ everBound :
        LET r == Resolve(<<S>>, K) IN
        /\ r.binding = Sentinel
        /\ r.isPrefix <=> (StoresExtension(S, K) \/ StoresExtension(ViewAll, K))

\* C4 witness: after a call, "g" has never been bound; it is pending for
\* ViewRef while "G", never bound either, is not.
NeverBoundResolvesToSentinelWitness ==
    /\ last.op = "SetActionBinding"
    /\ last.viewID = "ViewRef"
    /\ K_g \notin everBound
    /\ K_G \notin everBound
    /\ Resolve(<<"ViewRef">>, K_g) = Result(Sentinel, TRUE)
    /\ Resolve(<<"ViewRef">>, K_G) = Result(Sentinel, FALSE)

\* C5: when no scope of hierarchy+[ViewAll] holds an exact entry for K,
\* Binding returns the ActionNone binding with isPrefix TRUE exactly when one
\* of those scopes stores a key string starting with K; isPrefix TRUE never
\* comes with another binding.
PurePending ==
    \A h \in Hierarchies, K \in Inputs :
        LET scopes == Append(h, ViewAll)
            r == Resolve(h, K)
        IN /\ (\A i \in 1..Len(scopes) : ~HasExact(scopes[i], K)) =>
                /\ r.binding = Sentinel
                /\ r.isPrefix <=> \E i \in 1..Len(scopes) : StoresExtension(scopes[i], K)
           /\ r.isPrefix => r.binding = Sentinel

\* C5 witness: "gg" has just been removed from ViewAll, which stores nothing
\* starting with "g" any more; ViewRef alone stores "gg" and not "g", and
\* Binding([ViewRef], "g") is (ActionNone, TRUE).
PurePendingWitness ==
    /\ last.op = "RemoveBinding"
    /\ last.viewID = ViewAll
    /\ last.removed
    /\ ~StoresExtension(ViewAll, K_g)
    /\ HasExact("ViewRef", K_gg)
    /\ ~HasExact("ViewRef", K_g)
    /\ Resolve(<<"ViewRef">>, K_g) = Result(Sentinel, TRUE)
    /\ Resolve(<<"ViewCommit">>, K_g) = Result(Sentinel, FALSE)

\* C6: last write wins: for every (view, key) whose last call was a
\* SetActionBinding or SetKeystringBinding, whatever calls came before and
\* whatever was done to other pairs since, Binding([view], key) is the
\* binding that call installed, with isPrefix FALSE.
LastWriteWins ==
    \A p \in CallViews \X CallKeys :
        written[p] # NoItem => Resolve(<<p[1]>>, p[2]) = Result(written[p], FALSE)

\* C6 witness: SetActionBinding has just overwritten an entry bound to
\* another action, and Binding gives the new action.
LastWriteWinsWitness ==
    /\ last.op = "SetActionBinding"
    /\ last.prior.bindingType = "BtAction"
    /\ last.prior.actionType # last.actionType
    /\ last.actionType # ActionNone
    /\ last.prior.actionType # ActionNone
    /\ Resolve(<<last.viewID>>, last.keystring).binding.actionType = last.actionType

\* C7: right after SetKeystringBinding(S, K, T), Binding([S], K) is the
\* keystring binding holding T unchanged, with isPrefix FALSE: the remap is
\* not followed, even when T is bound itself or is an action key.
RemapRoundTrip ==
    last.op = "SetKeystringBinding" =>
        Resolve(<<last.viewID>>, last.keystring)
            = Result([bindingType |-> "BtKeystring",
                      keystring |-> last.mappedKeystring,
                      actionType |-> "ActionNone"], FALSE)

\* C7 witness: the target just installed is an action key that ViewAll binds
\* to its action, and Binding still gives the remap.
RemapRoundTripWitness ==
    /\ last.op = "SetKeystringBinding"
    /\ last.mappedKeystring = K_grvFirstLine
    /\ HasExact(ViewAll, K_grvFirstLine)
    /\ bindings[ViewAll][K_grvFirstLine].actionType = "ActionFirstLine"
    /\ Resolve(<<last.viewID>>, last.keystring).binding.bindingType = "BtKeystring"
    /\ Resolve(<<last.viewID>>, last.keystring).binding.keystring = K_grvFirstLine

\* C8 as stated: every key string listed in helpFormat[A][S] is bound in S's
\* trie to action A or to a remap whose target is A's action key.
NoStaleHelpRow ==
    \A A \in ActionTypes, S \in ViewIDs :
        \A K \in HelpKeys(helpFormat, A, S) :
            /\ HasExact(S, K)
            /\ \/ bindings[S][K] = [bindingType |-> "BtAction", actionType |-> A,
                                    keystring |-> << >>]
               \/ /\ bindings[S][K].bindingType = "BtKeystring"
                  /\ actionDescriptors[A].actionKey # << >>
                  /\ bindings[S][K].keystring = actionDescriptors[A].actionKey

\* C9 as stated: a RemoveBinding(S, K) that directly follows
\* SetActionBinding(S, K, A) leaves no entry for K in helpFormat[A][S],
\* for every action type A.
UnbindCleansHelp ==
    [][(/\ last.op = "SetActionBinding"
        /\ last'.op = "RemoveBinding"
        /\ last'.viewID = last.viewID
        /\ last'.keystring = last.keystring)
       => last.keystring \notin HelpKeys(helpFormat', last.actionType, last.viewID)]_vars

\* C10: a RemoveBinding(S, K) made when S's trie has no exact entry for K
\* returns FALSE and leaves the tries of all views as they were; a
\* RemoveBinding repeated on the same pair returns FALSE.
IdempotentRemoval ==
    [][/\ (last'.op = "RemoveBinding" /\ ~HasExact(last'.viewID, last'.keystring))
            => (~last'.removed /\ bindings' = bindings)
       /\ (/\ last.op = "RemoveBinding"
           /\ last'.op = "RemoveBinding"
           /\ last'.viewID = last.viewID
           /\ last'.keystring = last.keystring)
            => ~last'.removed]_vars

\* C10 witness: RemoveBinding was just called twice on a pair of a view other
\* than ViewAll, the second call found no entry and returned FALSE, and
\* ViewAll still holds its own entry for the key string.
IdempotentRemovalWitness ==
    /\ last.op = "RemoveBinding"
    /\ last.viewID # ViewAll
    /\ last.prior = NoItem
    /\ ~last.removed
    /\ written[<<last.viewID, last.keystring>>] = NoItem
    /\ nOps >= 2
    /\ HasExact(ViewAll, last.keystring)
    /\ Resolve(<<last.viewID>>, last.keystring).binding = bindings[ViewAll][last.keystring]

\* C11: RemoveBinding(S, K) returns TRUE exactly when S's own trie held an
\* exact entry for K before the call; afterwards S holds no entry for K and
\* every other entry of every view, longer key strings of S that start with K
\* included, is as it was.
UnbindReturnsExact ==
    [][last'.op = "RemoveBinding" =>
        /\ last'.removed <=> HasExact(last'.viewID, last'.keystring)
        /\ DOMAIN bindings' = DOMAIN bindings
        /\ last'.keystring \notin DOMAIN bindings'[last'.viewID]
        /\ \A V \in DOMAIN bindings :
            /\ DOMAIN bindings'[V] \subseteq DOMAIN bindings[V]
            /\ \A k \in DOMAIN bindings[V] :
                (V # last'.viewID \/ k # last'.keystring)
                    => (k \in DOMAIN bindings'[V] /\ bindings'[V][k] = bindings[V][k])]_vars

\* C11 witness: RemoveBinding(ViewRef, "g") has just returned TRUE; ViewRef
\* still holds "gg" and ViewAll still holds its own "gg".
UnbindReturnsExactWitness ==
    /\ last.op = "RemoveBinding"
    /\ last.viewID = "ViewRef"
    /\ last.keystring = K_g
    /\ last.removed
    /\ last.prior # NoItem
    /\ ~HasExact("ViewRef", K_g)
    /\ HasExact("ViewRef", K_gg)
    /\ HasExact(ViewAll, K_gg)

\* The entries of a help bucket, in order.
HelpBucket(helpTable, actionType, viewID) ==
    IF actionType \in DOMAIN helpTable /\ viewID \in DOMAIN helpTable[actionType]
    THEN helpTable[actionType][viewID]
    ELSE << >>

\* The entries of a help bucket whose key string is not keystring, in order.
HelpBucketWithout(helpTable, actionType, viewID, keystring) ==
    SelectSeq(HelpBucket(helpTable, actionType, viewID),
              LAMBDA entry : entry.keystring # keystring)

\* C12: after SetKeystringBinding(S, K, T) with K outside "<grv-": when T is
\* the action key of A, helpFormat[A][S] lists K; when T is no action key, no
\* help bucket gains an entry (each is as before, or as before without K).
\* In both cases Binding([S], K) is the remap to T.
RemapHelpCrediting ==
    [][(last'.op = "SetKeystringBinding" /\ ~HasPrefix(last'.keystring, GrvPrefix)) =>
        /\ last'.mappedKeystring \in DOMAIN actionKeys =>
                last'.keystring \in HelpKeys(helpFormat', actionKeys[last'.mappedKeystring],
                                             last'.viewID)
        /\ last'.mappedKeystring \notin DOMAIN actionKeys =>
                \A A \in ActionTypes, V \in ViewIDs :
                    HelpBucket(helpFormat', A, V)
                        \in {HelpBucket(helpFormat, A, V),
                             HelpBucketWithout(helpFormat, A, V, last'.keystring)}
        /\ Binding(Mgr', <<last'.viewID>>, last'.keystring)
                = Result([bindingType |-> "BtKeystring", keystring |-> last'.mappedKeystring,
                          actionType |-> "ActionNone"], FALSE)]_vars

\* C12 witness: "g" has just been remapped for ViewRef to "<grv-first-line>"
\* and is listed for ActionFirstLine there, while "gg", remapped before to
\* "gg" (no action key), is listed in no bucket of ViewRef.
RemapHelpCreditingWitness ==
    /\ last.op = "SetKeystringBinding"
    /\ last.viewID = "ViewRef"
    /\ last.keystring = K_g
    /\ last.mappedKeystring = K_grvFirstLine
    /\ HelpBucket(helpFormat, "ActionFirstLine", "ViewRef")
            = <<[keystring |-> K_g, userDefinedBinding |-> TRUE]>>
    /\ written[<<"ViewRef", K_gg>>]
            = [bindingType |-> "BtKeystring", keystring |-> K_gg, actionType |-> "ActionNone"]
    /\ \A A \in ActionTypes : K_gg \notin HelpKeys(helpFormat, A, "ViewRef")

\* C13: every help entry present after construction has userDefinedBinding
\* FALSE; a call leaves each bucket's surviving entries as they were, flag
\* included, and the only entry a call can add is (the call's key string,
\* TRUE), which SetActionBinding does add to the bucket of its action.
FlagFixedAtBindTime ==
    /\ \A A \in ActionTypes, V \in ViewIDs :
            \A i \in DOMAIN HelpBucket(helpFormat, A, V) :
                ~HelpBucket(helpFormat, A, V)[i].userDefinedBinding
    /\ [][/\ \A A \in ActionTypes, V \in ViewIDs :
                LET old == HelpBucket(helpFormat, A, V)
                    new == HelpBucket(helpFormat', A, V)
                    bound == [keystring |-> last'.keystring, userDefinedBinding |-> TRUE]
                IN \E kept \in {old, HelpBucketWithout(helpFormat, A, V, last'.keystring)} :
                        new = kept \/ new = Append(kept, bound)
          /\ last'.op = "SetActionBinding" =>
                HelpBucket(helpFormat', last'.actionType, last'.viewID)
                    = Append(HelpBucket(helpFormat, last'.actionType, last'.viewID),
                             [keystring |-> last'.keystring, userDefinedBinding |-> TRUE])]_vars

\* C13 witness: after "g" was bound to ActionFirstLine for ViewAll and another
\* call followed, the ViewAll bucket of ActionFirstLine holds the default
\* entry for "gg" with FALSE followed by the entry for "g" with TRUE.
FlagFixedAtBindTimeWitness ==
    /\ nOps >= 2
    /\ ~(last.op = "SetActionBinding" /\ last.keystring = K_g)
    /\ HelpBucket(helpFormat, "ActionFirstLine", ViewAll)
            = <<[keystring |-> K_gg, userDefinedBinding |-> FALSE],
                [keystring |-> K_g, userDefinedBinding |-> TRUE]>>

\* C14: no help bucket ever lists a key string that starts with "<grv-".  The
\* entries themselves are stored: each action key that no call has touched
\* still resolves to its action from any view, and a "<grv-" key string a
\* call has bound resolves to the binding installed last.
ReservedNeverInHelp ==
    /\ \A A \in ActionTypes, V \in ViewIDs :
            \A k \in HelpKeys(helpFormat, A, V) : ~HasPrefix(k, GrvPrefix)
    /\ \A k \in DOMAIN actionKeys :
            (k \notin ReservedCallKeys \/ nOps = 0) =>
                Resolve(<< >>, k) = Result(newActionBinding(actionKeys[k]), FALSE)
    /\ \A p \in DOMAIN written :
            (HasPrefix(p[2], GrvPrefix) /\ written[p] # NoItem) =>
                Resolve(<<p[1]>>, p[2]) = Result(written[p], FALSE)

\* C14 witness: "<grv-first-line>" has just been remapped for ViewRef to "gg",
\* after it was bound for ViewAll to ActionFilterPrompt; both entries are
\* stored and no bucket of either view lists the key string.
ReservedNeverInHelpWitness ==
    /\ last.op = "SetKeystringBinding"
    /\ last.viewID = "ViewRef"
    /\ last.keystring = K_grvFirstLine
    /\ last.mappedKeystring = K_gg
    /\ written[<<ViewAll, K_grvFirstLine>>] = newActionBinding("ActionFilterPrompt")
    /\ Resolve(<<"ViewRef">>, K_grvFirstLine) = Result(newKeystringBinding(K_gg), FALSE)
    /\ Resolve(<< >>, K_grvFirstLine) = Result(newActionBinding("ActionFilterPrompt"), FALSE)

\* The call recorded in c credits its key string to bucket (actionType, viewID).
Credits(c, actionType, viewID) ==
    /\ c.viewID = viewID
    /\ \/ c.op = "SetActionBinding" /\ c.actionType = actionType
       \/ /\ c.op = "SetKeystringBinding"
          /\ c.mappedKeystring \in DOMAIN actionKeys
          /\ actionKeys[c.mappedKeystring] = actionType

\* C15: a call changes a help bucket only at its own key string K and keeps
\* the order of everything else.  The bucket the call credits becomes the
\* entries it had (for SetActionBinding all of them, for SetKeystringBinding
\* possibly without those for K) followed by one new entry for K at the end;
\* every other bucket, and every bucket on RemoveBinding, is as it was or as
\* it was with every entry for K taken out.
HelpInsertionOrder ==
    [][\A A \in ActionTypes, V \in ViewIDs :
        LET old == HelpBucket(helpFormat, A, V)
            new == HelpBucket(helpFormat', A, V)
            without == HelpBucketWithout(helpFormat, A, V, last'.keystring)
        IN IF Credits(last', A, V)
           THEN /\ Len(new) > 0
                /\ new[Len(new)].keystring = last'.keystring
                /\ SubSeq(new, 1, Len(new) - 1)
                        \in (IF last'.op = "SetActionBinding" THEN {old} ELSE {old, without})
           ELSE new \in {old, without}]_vars

\* C15 witness: the ViewAll bucket of ActionFirstLine held "gg", "g", "gg" in
\* the order of their binding; RemoveBinding(ViewAll, "g") has just taken "g"
\* out of the middle and left the two "gg" entries in their order.
HelpInsertionOrderWitness ==
    /\ last.op = "RemoveBinding"
    /\ last.viewID = ViewAll
    /\ last.keystring = K_g
    /\ last.removed
    /\ nOps = 3
    /\ HelpBucket(helpFormat, "ActionFirstLine", ViewAll)
            = <<[keystring |-> K_gg, userDefinedBinding |-> FALSE],
                [keystring |-> K_gg, userDefinedBinding |-> TRUE]>>

\* The views a hierarchy names.
ViewsOf(viewHierarchy) == {viewHierarchy[i] : i \in DOMAIN viewHierarchy}

\* The manager with only the tries of the given views.
OnlyViews(m, views) ==
    [m EXCEPT !.bindings = [v \in (DOMAIN m.bindings) \cap views |-> m.bindings[v]]]

\* C16: a call on a view S other than ViewAll leaves the trie and the help
\* buckets of every other view as they were, and Binding(h, K) as it was for
\* every hierarchy h without S; Binding(h, K) is always what it would be with
\* only the tries of h's views and of ViewAll.
ScopesIndependent ==
    /\ [](\A h \in Hierarchies, K \in Inputs :
            Binding(OnlyViews(Mgr, ViewsOf(h) \cup {ViewAll}), h, K) = Resolve(h, K))
    /\ [][last'.viewID # ViewAll =>
            /\ \A V \in ViewIDs \ {last'.viewID} :
                /\ V \in DOMAIN bindings' <=> V \in DOMAIN bindings
                /\ V \in DOMAIN bindings => bindings'[V] = bindings[V]
                /\ \A A \in ActionTypes :
                        HelpBucket(helpFormat', A, V) = HelpBucket(helpFormat, A, V)
            /\ \A h \in Hierarchies, K \in Inputs :
                    last'.viewID \notin ViewsOf(h) =>
                        Binding(Mgr', h, K) = Resolve(h, K)]_vars

\* C16 witness: ViewRef's own "gg", bound to ActionFirstLine like ViewAll's
\* default, has just been removed; ViewAll still stores "gg", lists it for
\* ActionFirstLine and resolves it, while ViewRef lists it no more.
ScopesIndependentWitness ==
    /\ last.op = "RemoveBinding"
    /\ last.viewID = "ViewRef"
    /\ last.keystring = K_gg
    /\ last.prior = newActionBinding("ActionFirstLine")
    /\ K_gg \notin HelpKeys(helpFormat, "ActionFirstLine", "ViewRef")
    /\ K_gg \in HelpKeys(helpFormat, "ActionFirstLine", ViewAll)
    /\ Resolve(<<"ViewCommit">>, K_gg) = Result(newActionBinding("ActionFirstLine"), FALSE)

\* The mapped key string is the action key of actionType.
IsActionKeyOf(mappedKeystring, actionType) ==
    mappedKeystring \in DOMAIN actionKeys /\ actionKeys[mappedKeystring] = actionType

\* C17: when SetKeystringBinding(S, K, T) directly follows SetActionBinding(S,
\* K, A) and T is not the action key of A, helpFormat[A][S] does not list K
\* afterwards, for every action A; when it directly follows
\* SetKeystringBinding(S, K, T1) with T1 the action key of A1 and T is not,
\* helpFormat[A1][S] does not list K afterwards.
RemapPurgesPrior ==
    [][(/\ last'.op = "SetKeystringBinding"
        /\ last'.viewID = last.viewID
        /\ last'.keystring = last.keystring) =>
        /\ (last.op = "SetActionBinding"
                /\ ~IsActionKeyOf(last'.mappedKeystring, last.actionType)) =>
                last.keystring \notin HelpKeys(helpFormat', last.actionType, last.viewID)
        /\ \A A1 \in ActionTypes :
                (/\ last.op = "SetKeystringBinding"
                 /\ IsActionKeyOf(last.mappedKeystring, A1)
                 /\ ~IsActionKeyOf(last'.mappedKeystring, A1)) =>
                    last.keystring \notin HelpKeys(helpFormat', A1, last.viewID)]_vars

\* The actions whose bucket the removal of an entry is to prune: the action
\* of an action binding, the action a remap's target is the action key of.
Designated(binding) ==
    IF binding.bindingType = "BtAction"
    THEN {binding.actionType}
    ELSE IF binding.bindingType = "BtKeystring" /\ binding.keystring \in DOMAIN actionKeys
         THEN {actionKeys[binding.keystring]}
         ELSE {}

\* C18: RemoveBinding(S, K) of an existing entry changes no help bucket other
\* than the one the entry designates: (A, S) for an action binding A or a
\* remap to the action key of A, none at all for a remap to a key string
\* that is no action key.
UnbindPrunesOnlyDesignated ==
    [][(last'.op = "RemoveBinding" /\ last'.prior # NoItem) =>
        \A A \in ActionTypes, V \in ViewIDs :
            (A \notin Designated(last'.prior) \/ V # last'.viewID) =>
                HelpBucket(helpFormat', A, V) = HelpBucket(helpFormat, A, V)]_vars

\* The keystroke tokens of a key string: a bracketed name "<...>" is one
\* token, any other character is a token of its own.
RECURSIVE Tokens(_)
Tokens(s) ==
    IF s = << >>
    THEN << >>
    ELSE LET closing == {j \in 2..Len(s) : s[j] = ">"} IN
         IF s[1] = "<" /\ closing # {}
         THEN LET j == CHOOSE c \in closing : \A d \in closing : c <= d
              IN <<SubSeq(s, 1, j)>> \o Tokens(SubSeq(s, j + 1, Len(s)))
         ELSE <<SubSeq(s, 1, 1)>> \o Tokens(Tail(s))

\* The tokens of short are an initial sub-sequence of the tokens of long.
IsTokenPrefix(short, long) ==
    LET ts == Tokens(short)
        tl == Tokens(long)
    IN Len(ts) <= Len(tl) /\ SubSeq(tl, 1, Len(ts)) = ts

\* C19: Binding(h, K) reports isPrefix = TRUE only when the tokens of K are
\* an initial sub-sequence of the tokens of a key string stored for a view of
\* h or for ViewAll; so "<C" is not pending when only "<C-w>w" is bound.
PrefixIsTokenwise ==
    \A h \in Hierarchies, K \in Inputs :
        Resolve(h, K).isPrefix =>
            \E V \in (ViewsOf(h) \cup {ViewAll}) \cap DOMAIN bindings :
                \E k \in DOMAIN bindings[V] : IsTokenPrefix(K, k)

\* C20: when a view has stored remaps x -> y and y -> x (x -> x included),
\* Binding([S], x) is (remap to y, FALSE) and Binding([S], y) is (remap to x,
\* FALSE); and every Binding(h, K) consults the scopes of h followed by
\* ViewAll in order, each position at most once, stopping at the first exact
\* entry.
RemapCycleNotFollowed ==
    /\ \A S \in CallViews, x \in CycleKeys, y \in CycleKeys :
            (/\ written[<<S, x>>] = newKeystringBinding(y)
             /\ written[<<S, y>>] = newKeystringBinding(x)) =>
                /\ Entry(bindings, S, x) = newKeystringBinding(y)
                /\ Entry(bindings, S, y) = newKeystringBinding(x)
                /\ Resolve(<<S>>, x) = Result(newKeystringBinding(y), FALSE)
                /\ Resolve(<<S>>, y) = Result(newKeystringBinding(x), FALSE)
    /\ \A h \in Hierarchies, K \in Inputs :
            LET consulted == BindingConsulted(bindings, Append(h, ViewAll), 1, K)
                stopped == Entry(bindings, Append(h, ViewAll)[Len(consulted)], K)
            IN /\ Len(consulted) \in 1..(Len(h) + 1)
               /\ \A i \in DOMAIN consulted : consulted[i] = i
               /\ Resolve(h, K).binding = (IF stopped # NoItem THEN stopped ELSE Sentinel)

\* C20 witness: ViewRef has just stored "G" -> "g" after "g" -> "G"; both
\* remaps are in its trie and Binding([ViewRef], "g") is the remap to "G".
RemapCycleNotFollowedWitness ==
    /\ last.op = "SetKeystringBinding"
    /\ last.viewID = "ViewRef"
    /\ last.keystring = K_G
    /\ last.mappedKeystring = K_g
    /\ Entry(bindings, "ViewRef", K_g) = newKeystringBinding(K_G)
    /\ Entry(bindings, "ViewRef", K_G) = newKeystringBinding(K_g)
    /\ Resolve(<<"ViewRef">>, K_g) = Result(newKeystringBinding(K_G), FALSE)

\* What Binding returns for an action key that resolves to its own action.
ActionKeyResult(actionKey) == Result(newActionBinding(actionKeys[actionKey]), FALSE)

\* C21: right after construction every action key I resolves to its action
\* from every hierarchy, and every default (S, K) of an action's descriptor
\* resolves from [S] to that action and is listed in helpFormat[A][S] with
\* userDefinedBinding FALSE.  Later, Binding(h, I) keeps returning I's action
\* across every call that is not a call on I for ViewAll or for a view of h,
\* so the target of a remap to I still leads to the action of actionKeys.
DefaultsAfterConstruction ==
    /\ \A I \in DOMAIN actionKeys, h \in Hierarchies :
            Resolve(h, I) = ActionKeyResult(I)
    /\ \A A \in ActionTypes :
        \A S \in DOMAIN actionDescriptors[A].keyBindings :
            \A i \in DOMAIN actionDescriptors[A].keyBindings[S] :
                LET K == actionDescriptors[A].keyBindings[S][i] IN
                /\ Resolve(<<S>>, K) = Result(newActionBinding(A), FALSE)
                /\ \E j \in DOMAIN HelpBucket(helpFormat, A, S) :
                        HelpBucket(helpFormat, A, S)[j]
                            = [keystring |-> K, userDefinedBinding |-> FALSE]
    /\ [][\A I \in DOMAIN actionKeys, h \in Hierarchies :
            (/\ Resolve(h, I) = ActionKeyResult(I)
             /\ ~(last'.keystring = I /\ last'.viewID \in ViewsOf(h) \cup {ViewAll})) =>
                Binding(Mgr', h, I) = ActionKeyResult(I)]_vars

\* C21 witness: ViewRef remaps "gg" to "<grv-first-line>" and has since bound
\* "<grv-first-line>" itself to another action; from ViewCommit, which no call
\* touched, the remap's target still resolves to ActionFirstLine, from ViewRef
\* it no longer does.
DefaultsAfterConstructionWitness ==
    /\ nOps = 2
    /\ Entry(bindings, "ViewRef", K_gg) = newKeystringBinding(K_grvFirstLine)
    /\ last.op = "SetActionBinding"
    /\ last.viewID = "ViewRef"
    /\ last.keystring = K_grvFirstLine
    /\ last.actionType = "ActionFilterPrompt"
    /\ Resolve(<<"ViewCommit">>, K_grvFirstLine) = ActionKeyResult(K_grvFirstLine)
    /\ Resolve(<<"ViewRef">>, K_grvFirstLine) # ActionKeyResult(K_grvFirstLine)

\* The entries of a help bucket for one key string, in order.
HelpBucketOf(helpTable, actionType, viewID, keystring) ==
    SelectSeq(HelpBucket(helpTable, actionType, viewID),
              LAMBDA entry : entry.keystring = keystring)

\* C22: whenever a view S stores, for a key string K outside "<grv-", an
\* action binding A or a remap to the action key of A, helpFormat[A][S] has
\* an entry for K; and a call on another (view, key string) pair leaves the
\* entries for K of every bucket of S as they were.
HelpComplete ==
    /\ [](\A S \in DOMAIN bindings :
            \A K \in DOMAIN bindings[S] :
                ~HasPrefix(K, GrvPrefix) =>
                    \A A \in Designated(bindings[S][K]) :
                        K \in HelpKeys(helpFormat, A, S))
    /\ [][\A S \in ViewIDs, K \in CallKeys :
            (last'.viewID # S \/ last'.keystring # K) =>
                \A A \in ActionTypes :
                    HelpBucketOf(helpFormat', A, S, K) = HelpBucketOf(helpFormat, A, S, K)]_vars

\* C22 witness: ViewRef remaps "g" to "<grv-first-line>"; its "gg" was bound
\* and has just been removed again, and "g" is still listed for
\* ActionFirstLine in ViewRef.
HelpCompleteWitness ==
    /\ nOps = 3
    /\ last.op = "RemoveBinding"
    /\ last.viewID = "ViewRef"
    /\ last.keystring = K_gg
    /\ last.removed
    /\ Entry(bindings, "ViewRef", K_g) = newKeystringBinding(K_grvFirstLine)
    /\ K_g \in HelpKeys(helpFormat, "ActionFirstLine", "ViewRef")

\* C23: RemoveBinding(S, K), when S holds no exact entry for K and ViewAll
\* does, returns FALSE, leaves Binding([S], K) as it was and changes no help
\* bucket of any view.
UnbindShadowedIsNoOp ==
    [][(/\ last'.op = "RemoveBinding"
        /\ last'.viewID # ViewAll
        /\ ~HasExact(last'.viewID, last'.keystring)
        /\ HasExact(ViewAll, last'.keystring)) =>
        /\ ~last'.removed
        /\ Binding(Mgr', <<last'.viewID>>, last'.keystring)
                = Resolve(<<last'.viewID>>, last'.keystring)
        /\ \A A \in ActionTypes, V \in ViewIDs :
                HelpBucket(helpFormat', A, V) = HelpBucket(helpFormat, A, V)]_vars

----------------------------------------------------------------------------
\* The read-only methods as calls of their own, between the calls that
\* change the manager.

\* A view that has no default binding, hence no trie after construction.
ViewDiff == "ViewDiff"

ReadCallViews == {"ViewRef"}
ReadCallKeys == {K_g}
ReadHierarchies == {<< >>, <<"ViewRef">>, <<ViewDiff>>, <<ViewDiff, "ViewRef">>}
ReadKeys == {K_g, K_gg, K_LtC}
ReadActions == {"ActionNone", "ActionFirstLine"}
ReadViews == {ViewAll, "ViewRef", ViewDiff}

\* Faulty variant: the lookup creates the trie of each view it consults, as
\* getOrCreateViewBindings would.
CallBinding_CreateViews(viewHierarchy, keystring) ==
    LET r == Binding(Mgr, viewHierarchy, keystring) IN
    /\ last' = [op |-> "Binding", viewHierarchy |-> viewHierarchy,
                keystring |-> keystring, binding |-> r.binding,
                isPrefix |-> r.isPrefix,
                again |-> /\ last.op = "Binding"
                          /\ last.viewHierarchy = viewHierarchy
                          /\ last.keystring = keystring]
    /\ bindings' = [v \in (DOMAIN bindings) \cup ViewsOf(viewHierarchy) \cup {ViewAll} |->
                        IF v \in DOMAIN bindings THEN bindings[v] ELSE EmptyMap]
    /\ UNCHANGED <<helpFormat, userDefinedBinding, written, everBound, nOps>>

\* Binding assigns no field of the manager; the map reads of lines 673 and
\* 674 insert nothing.  The call and its result are recorded, and whether it
\* repeats the call before it.
CallBinding(viewHierarchy, keystring) ==
    LET r == Binding(Mgr, viewHierarchy, keystring) IN
    /\ last' = [op |-> "Binding", viewHierarchy |-> viewHierarchy,
                keystring |-> keystring, binding |-> r.binding,
                isPrefix |-> r.isPrefix,
                again |-> /\ last.op = "Binding"
                          /\ last.viewHierarchy = viewHierarchy
                          /\ last.keystring = keystring]
    /\ UNCHANGED <<bindings, helpFormat, userDefinedBinding, written, everBound, nOps>>

\* KeyStrings assigns no field of the manager either.
CallKeyStrings(actionType, viewID) ==
    /\ last' = [op |-> "KeyStrings", actionType |-> actionType, viewID |-> viewID,
                keystrings |-> KeyStrings(Mgr, actionType, viewID)]
    /\ UNCHANGED <<bindings, helpFormat, userDefinedBinding, written, everBound, nOps>>

NextRead ==
    \/ \E viewID \in ReadCallViews, keystring \in ReadCallKeys, actionType \in CallActions :
            CallSetActionBinding(viewID, keystring, actionType)
    \/ \E viewID \in ReadCallViews, keystring \in ReadCallKeys, mappedKeystring \in CallTargets :
            CallSetKeystringBinding(viewID, keystring, mappedKeystring)
    \/ \E viewID \in ReadCallViews, keystring \in ReadCallKeys :
            CallRemoveBinding(viewID, keystring)
    \/ \E viewHierarchy \in ReadHierarchies, keystring \in ReadKeys :
            CallBinding(viewHierarchy, keystring)
    \/ \E actionType \in ReadActions, viewID \in ReadViews :
            CallKeyStrings(actionType, viewID)

SpecRead == Init /\ [][NextRead]_vars

\* C24: a Binding or KeyStrings call leaves every trie (no trie is created
\* for a view that has none), every help bucket and the userDefinedBinding
\* switch as they were, so every lookup gives afterwards what it gave before,
\* and a Binding call that repeats the call before it returns the same
\* (binding, isPrefix) pair.
ReadsArePure ==
    [][last'.op \in {"Binding", "KeyStrings"} =>
        /\ DOMAIN bindings' = DOMAIN bindings
        /\ bindings' = bindings
        /\ helpFormat' = helpFormat
        /\ userDefinedBinding' = userDefinedBinding
        /\ \A h \in ReadHierarchies, K \in ReadKeys :
                Binding(Mgr', h, K) = Resolve(h, K)
        /\ \A A \in ReadActions, V \in ReadViews :
                KeyStrings(Mgr', A, V) = KeyStrings(Mgr, A, V)
        /\ (last'.op = "Binding" /\ last'.again) =>
                /\ last'.binding = last.binding
                /\ last'.isPrefix = last.isPrefix]_vars

\* C24 witness: after ViewRef bound "g", Binding([ViewDiff, ViewRef], "g") has
\* just been called a second time in a row; it returned ViewRef's entry and
\* ViewDiff still has no trie.
ReadsArePureWitness ==
    /\ last.op = "Binding"
    /\ last.again
    /\ last.viewHierarchy = <<ViewDiff, "ViewRef">>
    /\ last.keystring = K_g
    /\ nOps >= 1
    /\ ViewDiff \notin DOMAIN bindings
    /\ last.binding = Entry(bindings, "ViewRef", K_g)
    /\ last.binding # NoItem
    /\ ~last.isPrefix

====
